---- MODULE Spec2Model ----
(***************************************************************************)
(* Model of the RPC client engine of starx (package rpc): the send path    *)
(* (Client.send), the receive loop (Client.input), Client.Close,           *)
(* Client.OnShutdown and Call.done.                                        *)
(*                                                                         *)
(* Granularity: every region executed under client.mutex is one atomic     *)
(* step (the regions contain no blocking operation).  client.reqMutex is   *)
(* modelled explicitly because it is held across the stream write.         *)
(* Acquiring reqMutex is merged with the first region executed under it,   *)
(* and releasing it with the last step executed under it.                  *)
(*                                                                         *)
(* LockSpec refines the regions: acquiring client.mutex, the region and    *)
(* acquiring reqMutex are separate steps there, so that a task holding one *)
(* lock and waiting for the other is a state.                              *)
(*                                                                         *)
(* Model of the message codec of starx (package message): Encode, Decode   *)
(* and SetDict as operators on sequences of bytes, applied by the actions  *)
(* of CodecSpec to bounded sets of messages, byte sequences and tables.    *)
(***************************************************************************)
EXTENDS Integers, Sequences, FiniteSets, TLC

\* ---- bounds ----
MaxCalls == 2       \* number of Go/Call invocations
MaxClosers == 2     \* number of Close invocations
ChanCap == 1        \* capacity of ResponseChan (2<<10 in NewClient), scaled down

Calls == 1..MaxCalls
Closers == 1..MaxClosers
None == 0                       \* nil *Call
NoTask == 0                     \* reqMutex is free
Seqs == 0..MaxCalls             \* values client.seq can take
RespSeqs == 0..(MaxCalls - 1)   \* Seq of the responses the peer sends
Data == {1, 2}                  \* response payloads
NoData == 0                     \* reply slot never written

\* ---- error values ----
ErrShutdown == "connection is shut down"
ErrUnexpectedEOF == "unexpected EOF"
EOF == "EOF"
ErrRead == "read error"
ErrWrite == "write error"
NilErr == "nil"

ServerError(e) == "server: " \o e

\* records the peer may send: ordinary responses (looked up in pending),
\* HandlerPush / HandlerResponse records (forwarded to ResponseChan) and
\* malformed records (bytes that UnmarshalMsg rejects)
Responses ==
    [kind : {"response"}, seq : RespSeqs, error : {""}, data : Data]
    \cup [kind : {"response"}, seq : RespSeqs, error : {"boom"}, data : {NoData}]
    \cup [kind : {"push"}, seq : {0}, error : {""}, data : {NoData}]
    \cup [kind : {"bad"}, seq : {0}, error : {""}, data : {NoData}]

NoResponse == [kind |-> "none", seq |-> 0, error |-> "", data |-> NoData]

VARIABLES
    \* Client
    reqMutex,           \* holder of client.reqMutex, NoTask when free
    mutex,              \* holder of client.mutex, NoTask when free
    seq,                \* client.seq
    pending,            \* client.pending: Seqs -> call or None
    closing,            \* client.closing
    shutdown,           \* client.shutdown
    shutdownCallback,   \* client.shutdownCallback != nil
    chanLen,            \* len(client.ResponseChan)
    \* Call objects and the goroutines in Go/send
    cpc,                \* position of each Go invocation
    hasReply,           \* call.Reply != nil
    callSeq,            \* local seq of send (client.request.Seq)
    callError,          \* call.Error
    callReply,          \* *call.Reply
    doneCount,          \* number of call.done() invocations on the call
    doneBy,             \* path that completed the call
    failCall,           \* local call of send after the lookup on write failure
    \* receive loop
    ipc,                \* position of Client.input
    err,                \* outer err of input (line 127)
    rerr,               \* the error of Read, held by the err that line 131 declares
                        \* in the loop body and that shadows the outer one
    closingLocal,       \* local closing of input (line 184)
    buf,                \* client.codec.buf, as a sequence of records
    inCall,             \* local call of input (line 150)
    inResp,             \* local response of input
    drained,            \* calls completed by the final loop over pending
    callbackRuns,       \* number of invocations of shutdownCallback
    \* Close
    kpc,                \* position of each Close invocation
    closeRet,           \* return value of each Close invocation
    streamCloses,       \* number of codec.close() invocations
    \* stream and history
    written,            \* calls whose request was written to the stream
    everPending,        \* calls that were ever inserted into pending
    closingAtRead,      \* value of client.closing when Read returned its error
    \* package message: Encode, Decode, SetDict
    mpc,                \* position of the caller of the message codec
    msg,                \* the Message handed to Encode
    routeDict,          \* routeDict: route -> code
    codeDict,           \* codeDict: code -> route
    loads,              \* number of SetDict calls so far
    encoded,            \* result of Encode
    data,               \* bytes handed to Decode
    decoded             \* result of Decode

clientVars == <<reqMutex, seq, pending, closing, shutdown, shutdownCallback, chanLen>>
callVars == <<cpc, hasReply, callSeq, callError, callReply, doneCount, doneBy, failCall>>
inputVars == <<ipc, err, rerr, closingLocal, buf, inCall, inResp, drained, callbackRuns>>
closeVars == <<kpc, closeRet, streamCloses>>
histVars == <<written, everPending, closingAtRead>>
rpcVars == <<clientVars, callVars, inputVars, closeVars, histVars, mutex>>
codecVars == <<mpc, msg, routeDict, codeDict, loads, encoded, data, decoded>>
vars == <<rpcVars, codecVars>>

Keys(pend) == {s \in Seqs : pend[s] # None}
InTable(pend) == {pend[s] : s \in Keys(pend)}

\* NewClient: empty pending table, seq 0, flags false, receive loop started
ClientInit ==
    /\ reqMutex = NoTask
    /\ mutex = NoTask
    /\ seq = 0
    /\ pending = [s \in Seqs |-> None]
    /\ closing = FALSE
    /\ shutdown = FALSE
    /\ shutdownCallback = FALSE
    /\ chanLen = 0
    /\ cpc = [c \in Calls |-> "idle"]
    /\ hasReply = [c \in Calls |-> FALSE]
    /\ callSeq = [c \in Calls |-> 0]
    /\ callError = [c \in Calls |-> NilErr]
    /\ callReply = [c \in Calls |-> NoData]
    /\ doneCount = [c \in Calls |-> 0]
    /\ doneBy = [c \in Calls |-> "none"]
    /\ failCall = [c \in Calls |-> None]
    /\ ipc = "read"
    /\ err = NilErr
    /\ rerr = NilErr
    /\ closingLocal = FALSE
    /\ buf = <<>>
    /\ inCall = None
    /\ inResp = NoResponse
    /\ drained = {}
    /\ callbackRuns = 0
    /\ kpc = [k \in Closers |-> "idle"]
    /\ closeRet = [k \in Closers |-> "none"]
    /\ streamCloses = 0
    /\ written = {}
    /\ everPending = {}
    /\ closingAtRead = FALSE

\* ---- package message: values ----

\* message types
Request == 0
Notify == 1
Response == 2
Push == 3

msgRouteCompressMask == 1
msgTypeMask == 7
msgHeadLength == 3

ErrWrongMessageType == "wrong message type"
ErrInvalidMessage == "invalid message"
ErrRouteInfoNotFound == "route info not found in dictionary"

\* a map with no entry
EmptyDict == [x \in {} |-> 0]

NoMsg == [type |-> Request, id |-> 0, route |-> <<>>, data |-> <<>>, none |-> TRUE]
NoEncoded == [err |-> NilErr, bytes |-> <<>>, none |-> TRUE]
NoDecoded ==
    [status |-> "none", err |-> NilErr, type |-> Request, id |-> 0, route |-> <<>>,
     compressed |-> FALSE, data |-> <<>>, overread |-> FALSE, idTerminated |-> TRUE]

\* the state of package message while only the client runs: dictionaries as
\* the package initialises them, no Encode or Decode in progress
CodecOff ==
    /\ mpc = "off"
    /\ msg = NoMsg
    /\ routeDict = EmptyDict
    /\ codeDict = EmptyDict
    /\ loads = 0
    /\ encoded = NoEncoded
    /\ data = <<>>
    /\ decoded = NoDecoded

Init == ClientInit /\ CodecOff

\* ---- helpers translated from the code ----

ShutdownOnly(sh, cl) == sh

\* send, line 93: client.shutdown || client.closing
ShutdownOrClosing(sh, cl) == sh \/ cl

NextSeqStuck(s, r) == s

\* send, lines 100-101: client.seq++ only when call.Reply != nil
NextSeq(s, r) == IF r THEN s + 1 ELSE s

RegisteredAlways(pend, s, c, r) == [pend EXCEPT ![s] = c]

RegisteredNever(pend, s, c, r) == pend

\* send, lines 100-102: client.pending[seq] = call only when call.Reply != nil
Registered(pend, s, c, r) == IF r THEN [pend EXCEPT ![s] = c] ELSE pend

LookupFirst(pend, s) ==
    IF Keys(pend) = {} THEN None
    ELSE pend[CHOOSE k \in Keys(pend) : \A j \in Keys(pend) : k <= j]

\* call := client.pending[seq] (lines 116, 150); a missing key yields nil
Lookup(pend, s) == pend[s]

DeletedAll(pend, s) == [x \in Seqs |-> None]

DeletedNot(pend, s) == pend

\* delete(client.pending, seq) (lines 117, 151)
Deleted(pend, s) == [pend EXCEPT ![s] = None]

\* input, lines 185-191: classification of the outer err at termination
DrainError(e, cl) ==
    IF e = EOF THEN (IF cl THEN ErrShutdown ELSE ErrUnexpectedEOF) ELSE e

\* input, line 130: the loop condition reads the outer err
LoopContinues(e) == e = NilErr

AlreadyClosingNever(cl) == FALSE

\* Close, line 252
AlreadyClosing(cl) == cl

\* ---- Go / send ----

\* Go (lines 265-285) and send up to line 104: take reqMutex, then the
\* registration region under mutex.  r is reply != nil.
SendRegister(c, r) ==
    /\ cpc[c] = "idle"
    /\ \A d \in Calls : d < c => cpc[d] # "idle"     \* Call objects are numbered as allocated
    /\ reqMutex = NoTask
    /\ hasReply' = [hasReply EXCEPT ![c] = r]
    /\ IF ShutdownOrClosing(shutdown, closing)
       THEN /\ callError' = [callError EXCEPT ![c] = ErrShutdown]
            /\ doneCount' = [doneCount EXCEPT ![c] = @ + 1]
            /\ doneBy' = [doneBy EXCEPT ![c] = "shutdown"]
            /\ cpc' = [cpc EXCEPT ![c] = "returned"]
            /\ UNCHANGED <<reqMutex, seq, pending, callSeq, everPending>>
       ELSE /\ callSeq' = [callSeq EXCEPT ![c] = seq]
            /\ seq' = NextSeq(seq, r)
            /\ pending' = Registered(pending, seq, c, r)
            /\ everPending' = everPending \cup InTable(pending')
            /\ reqMutex' = c
            /\ cpc' = [cpc EXCEPT ![c] = "write"]
            /\ UNCHANGED <<callError, doneCount, doneBy>>
    /\ UNCHANGED <<closing, shutdown, shutdownCallback, chanLen, callReply, failCall,
                   inputVars, closeVars, written, closingAtRead>>
    /\ UNCHANGED <<codecVars, mutex>>

\* send, line 113 with a nil error, then the deferred reqMutex.Unlock
SendWriteOk(c) ==
    /\ cpc[c] = "write"
    /\ written' = written \cup {c}
    /\ reqMutex' = NoTask
    /\ cpc' = [cpc EXCEPT ![c] = "returned"]
    /\ UNCHANGED <<seq, pending, closing, shutdown, shutdownCallback, chanLen,
                   hasReply, callSeq, callError, callReply, doneCount, doneBy, failCall,
                   inputVars, closeVars, everPending, closingAtRead>>
    /\ UNCHANGED <<codecVars, mutex>>

\* send, lines 113-118: the write fails, then the region under mutex that
\* looks the call up and removes it
SendWriteFail(c) ==
    /\ cpc[c] = "write"
    /\ failCall' = [failCall EXCEPT ![c] = Lookup(pending, callSeq[c])]
    /\ pending' = Deleted(pending, callSeq[c])
    /\ cpc' = [cpc EXCEPT ![c] = "failDone"]
    /\ UNCHANGED <<reqMutex, seq, closing, shutdown, shutdownCallback, chanLen,
                   hasReply, callSeq, callError, callReply, doneCount, doneBy,
                   inputVars, closeVars, histVars>>
    /\ UNCHANGED <<codecVars, mutex>>

\* send, lines 119-122, then the deferred reqMutex.Unlock
SendFailComplete(c) ==
    /\ cpc[c] = "failDone"
    /\ IF failCall[c] # None
       THEN /\ callError' = [callError EXCEPT ![failCall[c]] = ErrWrite]
            /\ doneCount' = [doneCount EXCEPT ![failCall[c]] = @ + 1]
            /\ doneBy' = [doneBy EXCEPT ![failCall[c]] = "writefail"]
       ELSE UNCHANGED <<callError, doneCount, doneBy>>
    /\ failCall' = [failCall EXCEPT ![c] = None]
    /\ reqMutex' = NoTask
    /\ cpc' = [cpc EXCEPT ![c] = "returned"]
    /\ UNCHANGED <<seq, pending, closing, shutdown, shutdownCallback, chanLen,
                   hasReply, callSeq, callReply,
                   inputVars, closeVars, histVars>>
    /\ UNCHANGED <<codecVars, mutex>>

\* ---- receive loop ----

\* input, lines 131-136: Read returns data
InputRead(chunk) ==
    /\ ipc = "read"
    /\ buf' = buf \o chunk
    /\ ipc' = "decode"
    /\ UNCHANGED <<clientVars, callVars, err, rerr, closingLocal, inCall, inResp, drained,
                   callbackRuns, closeVars, histVars>>
    /\ UNCHANGED <<codecVars, mutex>>

\* input, lines 131-135: Read returns an error; it is stored in the err
\* declared by := in the loop body, the outer err keeps its value
InputReadErr(e) ==
    /\ ipc = "read"
    /\ rerr' = e
    /\ closingAtRead' = closing
    /\ ipc' = "drain"
    /\ UNCHANGED <<clientVars, callVars, err, closingLocal, buf, inCall, inResp,
                   drained, callbackRuns, closeVars, written, everPending>>
    /\ UNCHANGED <<codecVars, mutex>>

\* input, lines 139-143 and 130: no complete record in the buffer, the
\* decode loop breaks and the outer loop tests the outer err
InputDecodeIncomplete ==
    /\ ipc = "decode"
    /\ buf = <<>>
    /\ ipc' = IF LoopContinues(err) THEN "read" ELSE "drain"
    /\ UNCHANGED <<clientVars, callVars, err, rerr, closingLocal, buf, inCall, inResp,
                   drained, callbackRuns, closeVars, histVars>>
    /\ UNCHANGED <<codecVars, mutex>>

\* Response.UnmarshalMsg on a malformed record (the decoder is not part of
\* the sources): the record is consumed and the remainder returned
UnmarshalErrRemainder(b) == Tail(b)

\* input, lines 139-143 and 130: UnmarshalMsg rejects the record at the head
\* of the buffer; the error goes to the err of the loop body, the decode loop
\* breaks and the outer loop tests the outer err
InputDecodeMalformed ==
    /\ ipc = "decode"
    /\ buf # <<>>
    /\ Head(buf).kind = "bad"
    /\ buf' = UnmarshalErrRemainder(buf)
    /\ ipc' = IF LoopContinues(err) THEN "read" ELSE "drain"
    /\ UNCHANGED <<clientVars, callVars, err, rerr, closingLocal, inCall, inResp,
                   drained, callbackRuns, closeVars, histVars>>
    /\ UNCHANGED <<codecVars, mutex>>

\* input, lines 144-147: a push / out-of-band response goes to ResponseChan
InputDecodePush ==
    /\ ipc = "decode"
    /\ buf # <<>>
    /\ Head(buf).kind = "push"
    /\ chanLen < ChanCap
    /\ chanLen' = chanLen + 1
    /\ buf' = Tail(buf)
    /\ UNCHANGED <<reqMutex, seq, pending, closing, shutdown, shutdownCallback,
                   callVars, ipc, err, rerr, closingLocal, inCall, inResp,
                   drained, callbackRuns, closeVars, histVars>>
    /\ UNCHANGED <<codecVars, mutex>>

\* input, lines 139 and 148-152: decode an ordinary response, look its
\* sequence number up and remove it from the table
InputDecodeResponse ==
    /\ ipc = "decode"
    /\ buf # <<>>
    /\ Head(buf).kind = "response"
    /\ inResp' = Head(buf)
    /\ buf' = Tail(buf)
    /\ inCall' = Lookup(pending, Head(buf).seq)
    /\ pending' = Deleted(pending, Head(buf).seq)
    /\ ipc' = "complete"
    /\ UNCHANGED <<reqMutex, seq, closing, shutdown, shutdownCallback, chanLen,
                   callVars, err, rerr, closingLocal, drained, callbackRuns,
                   closeVars, histVars>>
    /\ UNCHANGED <<codecVars, mutex>>

\* input, lines 154-177
InputComplete ==
    /\ ipc = "complete"
    /\ IF inCall = None
       THEN UNCHANGED <<callError, callReply, doneCount, doneBy>>
       ELSE IF inResp.error # ""
       THEN /\ callError' = [callError EXCEPT ![inCall] = ServerError(inResp.error)]
            /\ doneCount' = [doneCount EXCEPT ![inCall] = @ + 1]
            /\ doneBy' = [doneBy EXCEPT ![inCall] = "response"]
            /\ UNCHANGED callReply
       ELSE /\ callReply' = [callReply EXCEPT ![inCall] = inResp.data]
            /\ doneCount' = [doneCount EXCEPT ![inCall] = @ + 1]
            /\ doneBy' = [doneBy EXCEPT ![inCall] = "response"]
            /\ UNCHANGED callError
    /\ inCall' = None                  \* call and response are per-iteration locals
    /\ inResp' = NoResponse
    /\ ipc' = "decode"
    /\ UNCHANGED <<clientVars, cpc, hasReply, callSeq, failCall, err, rerr, closingLocal,
                   buf, drained, callbackRuns, closeVars, histVars>>
    /\ UNCHANGED <<codecVars, mutex>>

\* input, lines 181-197: under reqMutex and mutex
InputDrain ==
    /\ ipc = "drain"
    /\ reqMutex = NoTask
    /\ shutdown' = TRUE
    /\ closingLocal' = closing
    /\ err' = DrainError(err, closing)
    /\ callError' = [c \in Calls |-> IF c \in InTable(pending) THEN err' ELSE callError[c]]
    /\ doneCount' = [c \in Calls |-> IF c \in InTable(pending) THEN doneCount[c] + 1
                                     ELSE doneCount[c]]
    /\ doneBy' = [c \in Calls |-> IF c \in InTable(pending) THEN "drain" ELSE doneBy[c]]
    /\ drained' = InTable(pending)
    /\ ipc' = "callback"
    /\ UNCHANGED <<reqMutex, seq, pending, closing, shutdownCallback, chanLen,
                   cpc, hasReply, callSeq, callReply, failCall,
                   rerr, buf, inCall, inResp, callbackRuns, closeVars, histVars>>
    /\ UNCHANGED <<codecVars, mutex>>

\* input, lines 201-203
InputCallback ==
    /\ ipc = "callback"
    /\ callbackRuns' = IF shutdownCallback THEN callbackRuns + 1 ELSE callbackRuns
    /\ ipc' = "done"
    /\ UNCHANGED <<clientVars, callVars, err, rerr, closingLocal, buf, inCall,
                   inResp, drained, closeVars, histVars>>
    /\ UNCHANGED <<codecVars, mutex>>

\* ---- Close, OnShutdown, consumer of ResponseChan ----

\* Close, lines 251-257
CloseCheck(k) ==
    /\ kpc[k] = "idle"
    /\ \A j \in Closers : j < k => kpc[j] # "idle"   \* invocations are numbered as they start
    /\ IF AlreadyClosing(closing)
       THEN /\ closeRet' = [closeRet EXCEPT ![k] = ErrShutdown]
            /\ kpc' = [kpc EXCEPT ![k] = "returned"]
            /\ UNCHANGED closing
       ELSE /\ closing' = TRUE
            /\ kpc' = [kpc EXCEPT ![k] = "closeStream"]
            /\ UNCHANGED closeRet
    /\ UNCHANGED <<reqMutex, seq, pending, shutdown, shutdownCallback, chanLen,
                   callVars, inputVars, streamCloses, histVars>>
    /\ UNCHANGED <<codecVars, mutex>>

\* Close, line 258: codec.close()
CloseStream(k) ==
    /\ kpc[k] = "closeStream"
    /\ streamCloses' = streamCloses + 1
    /\ closeRet' = [closeRet EXCEPT ![k] = "closed"]
    /\ kpc' = [kpc EXCEPT ![k] = "returned"]
    /\ UNCHANGED <<clientVars, callVars, inputVars, histVars>>
    /\ UNCHANGED <<codecVars, mutex>>

\* OnShutdown, lines 246-248
OnShutdown ==
    /\ ~shutdownCallback
    /\ shutdownCallback' = TRUE
    /\ UNCHANGED <<reqMutex, seq, pending, closing, shutdown, chanLen,
                   callVars, inputVars, closeVars, histVars>>
    /\ UNCHANGED <<codecVars, mutex>>

\* a reader of ResponseChan outside this package takes one record
Consume ==
    /\ chanLen > 0
    /\ chanLen' = chanLen - 1
    /\ UNCHANGED <<reqMutex, seq, pending, closing, shutdown, shutdownCallback,
                   callVars, inputVars, closeVars, histVars>>
    /\ UNCHANGED <<codecVars, mutex>>

\* the bytes of one Read; a Read that carries several records is handled by
\* the decode loop exactly as consecutive Reads of one record each
Chunks == {<<r>> : r \in Responses}

Next ==
    \/ \E c \in Calls, r \in BOOLEAN : SendRegister(c, r)
    \/ \E c \in Calls : SendWriteOk(c)
    \/ \E c \in Calls : SendWriteFail(c)
    \/ \E c \in Calls : SendFailComplete(c)
    \/ \E chunk \in Chunks : InputRead(chunk)
    \/ \E e \in {EOF, ErrRead} : InputReadErr(e)
    \/ InputDecodeIncomplete
    \/ InputDecodeMalformed
    \/ InputDecodePush
    \/ InputDecodeResponse
    \/ InputComplete
    \/ InputDrain
    \/ InputCallback
    \/ \E k \in Closers : CloseCheck(k)
    \/ \E k \in Closers : CloseStream(k)
    \/ OnShutdown
    \/ Consume

Spec == Init /\ [][Next]_vars

Completed(c) == doneCount[c] >= 1
Terminated == ipc \in {"callback", "done"}

\* ---- the client on a stream that Close really closes ----

\* Read on the stream: data can arrive only while codec.close() has not run
InputReadOpen(chunk) == streamCloses = 0 /\ InputRead(chunk)

\* Read on a closed stream returns an error
InputReadClosed == streamCloses > 0 /\ \E e \in {EOF, ErrRead} : InputReadErr(e)

SendStep == \E c \in Calls : SendWriteOk(c) \/ SendWriteFail(c) \/ SendFailComplete(c)

InputStep ==
    \/ InputDecodeIncomplete
    \/ InputDecodeMalformed
    \/ InputDecodePush
    \/ InputDecodeResponse
    \/ InputComplete
    \/ InputDrain
    \/ InputCallback

CloseStep == \E k \in Closers : CloseStream(k)

FairNext ==
    \/ \E c \in Calls, r \in BOOLEAN : SendRegister(c, r)
    \/ SendStep
    \/ \E chunk \in Chunks : InputReadOpen(chunk)
    \/ \E e \in {EOF, ErrRead} : InputReadErr(e)
    \/ InputStep
    \/ \E k \in Closers : CloseCheck(k)
    \/ CloseStep
    \/ OnShutdown
    \/ Consume

\* every goroutine that can take a step eventually takes it, a reader keeps
\* taking records from ResponseChan, and Read on a closed stream returns
Fairness ==
    /\ WF_vars(SendStep)
    /\ WF_vars(InputStep)
    /\ WF_vars(CloseStep)
    /\ WF_vars(Consume)
    /\ WF_vars(InputReadClosed)

FairSpec == Init /\ [][FairNext]_vars /\ Fairness

\* Call, lines 288-291: the receive on Done returns once done() has run
CallReturned(c) == cpc[c] = "returned" /\ Completed(c)

TypeOK ==
    /\ reqMutex \in {NoTask} \cup Calls
    /\ seq \in Seqs
    /\ pending \in [Seqs -> Calls \cup {None}]
    /\ doneCount \in [Calls -> 0..1]

\* ---- the client with every lock operation as a step of its own ----

MaxLockCalls == 2       \* number of Go/Call invocations in LockSpec
MaxLockClosers == 1     \* number of Close invocations in LockSpec

\* the tasks that take locks: the Go/send invocations, the receive loop and
\* the Close invocations
InputTask == MaxCalls + 1
CloseTask(k) == MaxCalls + 1 + k
Tasks == Calls \cup {InputTask} \cup {CloseTask(k) : k \in Closers}

callData == <<hasReply, callSeq, callError, callReply, doneCount, doneBy, failCall>>

DrainLocksInverted == <<"mutex", "reqMutex">>

\* input, lines 181-182: the order in which the drain takes the locks
DrainLocks == <<"reqMutex", "mutex">>

Holder(l) == IF l = "reqMutex" THEN reqMutex ELSE mutex

\* Go, lines 265-285: send is entered and is about to lock reqMutex
LockGo(c) ==
    /\ cpc[c] = "idle"
    /\ c <= MaxLockCalls
    /\ \A d \in Calls : d < c => cpc[d] # "idle"
    /\ cpc' = [cpc EXCEPT ![c] = "lockReq"]
    /\ UNCHANGED <<clientVars, callData, inputVars, closeVars, histVars, mutex, codecVars>>

\* send, line 88: client.reqMutex.Lock()
LockSendReq(c) ==
    /\ cpc[c] = "lockReq"
    /\ reqMutex = NoTask
    /\ reqMutex' = c
    /\ cpc' = [cpc EXCEPT ![c] = "lockMutex"]
    /\ UNCHANGED <<seq, pending, closing, shutdown, shutdownCallback, chanLen,
                   callData, inputVars, closeVars, histVars, mutex, codecVars>>

\* send, line 92: client.mutex.Lock()
LockSendMutex(c) ==
    /\ cpc[c] = "lockMutex"
    /\ mutex = NoTask
    /\ mutex' = c
    /\ cpc' = [cpc EXCEPT ![c] = "register"]
    /\ UNCHANGED <<clientVars, callData, inputVars, closeVars, histVars, codecVars>>

\* send, lines 93-104: the registration region and client.mutex.Unlock();
\* on the shutdown path also done() and the deferred reqMutex.Unlock()
LockedRegister(c, r) ==
    /\ cpc[c] = "register"
    /\ hasReply' = [hasReply EXCEPT ![c] = r]
    /\ IF ShutdownOrClosing(shutdown, closing)
       THEN /\ callError' = [callError EXCEPT ![c] = ErrShutdown]
            /\ doneCount' = [doneCount EXCEPT ![c] = @ + 1]
            /\ doneBy' = [doneBy EXCEPT ![c] = "shutdown"]
            /\ cpc' = [cpc EXCEPT ![c] = "returned"]
            /\ reqMutex' = NoTask
            /\ UNCHANGED <<seq, pending, callSeq, everPending>>
       ELSE /\ callSeq' = [callSeq EXCEPT ![c] = seq]
            /\ seq' = NextSeq(seq, r)
            /\ pending' = Registered(pending, seq, c, r)
            /\ everPending' = everPending \cup InTable(pending')
            /\ cpc' = [cpc EXCEPT ![c] = "write"]
            /\ UNCHANGED <<reqMutex, callError, doneCount, doneBy>>
    /\ mutex' = NoTask
    /\ UNCHANGED <<closing, shutdown, shutdownCallback, chanLen, callReply, failCall,
                   inputVars, closeVars, written, closingAtRead, codecVars>>

\* send, line 113: writeRequest returns an error
LockWriteFail(c) ==
    /\ cpc[c] = "write"
    /\ cpc' = [cpc EXCEPT ![c] = "failLock"]
    /\ UNCHANGED <<clientVars, callData, inputVars, closeVars, histVars, mutex, codecVars>>

\* send, line 115: client.mutex.Lock()
LockFailMutex(c) ==
    /\ cpc[c] = "failLock"
    /\ mutex = NoTask
    /\ mutex' = c
    /\ cpc' = [cpc EXCEPT ![c] = "failRegion"]
    /\ UNCHANGED <<clientVars, callData, inputVars, closeVars, histVars, codecVars>>

\* send, lines 116-118: look the call up, remove it, client.mutex.Unlock()
LockedFail(c) ==
    /\ cpc[c] = "failRegion"
    /\ failCall' = [failCall EXCEPT ![c] = Lookup(pending, callSeq[c])]
    /\ pending' = Deleted(pending, callSeq[c])
    /\ mutex' = NoTask
    /\ cpc' = [cpc EXCEPT ![c] = "failDone"]
    /\ UNCHANGED <<reqMutex, seq, closing, shutdown, shutdownCallback, chanLen,
                   hasReply, callSeq, callError, callReply, doneCount, doneBy,
                   inputVars, closeVars, histVars, codecVars>>

\* input, lines 139 and 148-149: an ordinary response is decoded, then
\* client.mutex.Lock()
LockInputMutex ==
    /\ ipc = "decode"
    /\ buf # <<>>
    /\ Head(buf).kind = "response"
    /\ mutex = NoTask
    /\ mutex' = InputTask
    /\ inResp' = Head(buf)
    /\ buf' = Tail(buf)
    /\ ipc' = "lookup"
    /\ UNCHANGED <<clientVars, callVars, err, rerr, closingLocal, inCall, drained,
                   callbackRuns, closeVars, histVars, codecVars>>

\* input, lines 150-152: look the call up, remove it, client.mutex.Unlock()
LockedLookup ==
    /\ ipc = "lookup"
    /\ inCall' = Lookup(pending, inResp.seq)
    /\ pending' = Deleted(pending, inResp.seq)
    /\ mutex' = NoTask
    /\ ipc' = "complete"
    /\ UNCHANGED <<reqMutex, seq, closing, shutdown, shutdownCallback, chanLen,
                   callVars, err, rerr, closingLocal, buf, inResp, drained, callbackRuns,
                   closeVars, histVars, codecVars>>

\* input, line 181: the first Lock() of the drain
LockDrainFirst ==
    /\ ipc = "drain"
    /\ Holder(DrainLocks[1]) = NoTask
    /\ reqMutex' = IF DrainLocks[1] = "reqMutex" THEN InputTask ELSE reqMutex
    /\ mutex' = IF DrainLocks[1] = "mutex" THEN InputTask ELSE mutex
    /\ ipc' = "drainSecond"
    /\ UNCHANGED <<seq, pending, closing, shutdown, shutdownCallback, chanLen,
                   callVars, err, rerr, closingLocal, buf, inCall, inResp, drained,
                   callbackRuns, closeVars, histVars, codecVars>>

\* input, line 182: the second Lock() of the drain
LockDrainSecond ==
    /\ ipc = "drainSecond"
    /\ Holder(DrainLocks[2]) = NoTask
    /\ reqMutex' = IF DrainLocks[2] = "reqMutex" THEN InputTask ELSE reqMutex
    /\ mutex' = IF DrainLocks[2] = "mutex" THEN InputTask ELSE mutex
    /\ ipc' = "drainRegion"
    /\ UNCHANGED <<seq, pending, closing, shutdown, shutdownCallback, chanLen,
                   callVars, err, rerr, closingLocal, buf, inCall, inResp, drained,
                   callbackRuns, closeVars, histVars, codecVars>>

\* input, lines 183-197: the drain under both locks, then both Unlock()
LockedDrain ==
    /\ ipc = "drainRegion"
    /\ shutdown' = TRUE
    /\ closingLocal' = closing
    /\ err' = DrainError(err, closing)
    /\ callError' = [c \in Calls |-> IF c \in InTable(pending) THEN err' ELSE callError[c]]
    /\ doneCount' = [c \in Calls |-> IF c \in InTable(pending) THEN doneCount[c] + 1
                                     ELSE doneCount[c]]
    /\ doneBy' = [c \in Calls |-> IF c \in InTable(pending) THEN "drain" ELSE doneBy[c]]
    /\ drained' = InTable(pending)
    /\ mutex' = NoTask
    /\ reqMutex' = NoTask
    /\ ipc' = "callback"
    /\ UNCHANGED <<seq, pending, closing, shutdownCallback, chanLen,
                   cpc, hasReply, callSeq, callReply, failCall,
                   rerr, buf, inCall, inResp, callbackRuns, closeVars, histVars, codecVars>>

\* Close is entered and is about to lock mutex
LockCloseCall(k) ==
    /\ kpc[k] = "idle"
    /\ k <= MaxLockClosers
    /\ \A j \in Closers : j < k => kpc[j] # "idle"
    /\ kpc' = [kpc EXCEPT ![k] = "lockMutex"]
    /\ UNCHANGED <<clientVars, callVars, inputVars, closeRet, streamCloses, histVars,
                   mutex, codecVars>>

\* Close, line 251: client.mutex.Lock()
LockCloseMutex(k) ==
    /\ kpc[k] = "lockMutex"
    /\ mutex = NoTask
    /\ mutex' = CloseTask(k)
    /\ kpc' = [kpc EXCEPT ![k] = "check"]
    /\ UNCHANGED <<clientVars, callVars, inputVars, closeRet, streamCloses, histVars,
                   codecVars>>

\* Close, lines 252-257: test and set closing, client.mutex.Unlock()
LockedCloseCheck(k) ==
    /\ kpc[k] = "check"
    /\ IF AlreadyClosing(closing)
       THEN /\ closeRet' = [closeRet EXCEPT ![k] = ErrShutdown]
            /\ kpc' = [kpc EXCEPT ![k] = "returned"]
            /\ UNCHANGED closing
       ELSE /\ closing' = TRUE
            /\ kpc' = [kpc EXCEPT ![k] = "closeStream"]
            /\ UNCHANGED closeRet
    /\ mutex' = NoTask
    /\ UNCHANGED <<reqMutex, seq, pending, shutdown, shutdownCallback, chanLen,
                   callVars, inputVars, streamCloses, histVars, codecVars>>

\* the records that make the receive loop take a lock: ordinary responses;
\* their payload and error string have no part in the locking
LockChunks == {<<r>> : r \in {x \in Responses : x.kind = "response" /\ x.data = 1}}

\* the steps without a Lock() are those of Spec; pushes, malformed records
\* and OnShutdown take no lock and are left out
LockNext ==
    \/ \E c \in Calls : LockGo(c)
    \/ \E c \in Calls : LockSendReq(c)
    \/ \E c \in Calls : LockSendMutex(c)
    \/ \E c \in Calls, r \in BOOLEAN : LockedRegister(c, r)
    \/ \E c \in Calls : SendWriteOk(c)
    \/ \E c \in Calls : LockWriteFail(c)
    \/ \E c \in Calls : LockFailMutex(c)
    \/ \E c \in Calls : LockedFail(c)
    \/ \E c \in Calls : SendFailComplete(c)
    \/ \E chunk \in LockChunks : InputRead(chunk)
    \/ InputReadErr(EOF)
    \/ InputDecodeIncomplete
    \/ LockInputMutex
    \/ LockedLookup
    \/ InputComplete
    \/ LockDrainFirst
    \/ LockDrainSecond
    \/ LockedDrain
    \/ InputCallback
    \/ \E k \in Closers : LockCloseCall(k)
    \/ \E k \in Closers : LockCloseMutex(k)
    \/ \E k \in Closers : LockedCloseCheck(k)
    \/ \E k \in Closers : CloseStream(k)

LockSpec == Init /\ [][LockNext]_vars

\* the lock a task is blocked on, "none" when it is not at a Lock()
WantsLock(t) ==
    IF t \in Calls
    THEN IF cpc[t] = "lockReq" THEN "reqMutex"
         ELSE IF cpc[t] \in {"lockMutex", "failLock"} THEN "mutex"
         ELSE "none"
    ELSE IF t = InputTask
    THEN IF ipc = "decode" /\ buf # <<>> /\ Head(buf).kind = "response" THEN "mutex"
         ELSE IF ipc = "drain" THEN DrainLocks[1]
         ELSE IF ipc = "drainSecond" THEN DrainLocks[2]
         ELSE "none"
    ELSE IF kpc[t - MaxCalls - 1] = "lockMutex" THEN "mutex" ELSE "none"

\* ---- package message: Encode, Decode, SetDict ----

MaxLoads == 1       \* number of SetDict calls
MaxRawLen == 4      \* length of the byte sequences handed to Decode directly

\* "room.join" and "c"
RoomJoin == <<114, 111, 111, 109, 46, 106, 111, 105, 110>>
Chat == <<99>>
Routes == {<<>>, RoomJoin, Chat}
IDs == {0, 5, 300, 16384}
Payloads == {<<>>, <<97>>, <<97, 98, 99>>}

\* the messages handed to Encode; type 4 is not a MessageType the package defines
Messages == [type : 0..4, id : IDs, route : Routes, data : Payloads, none : {FALSE}]

\* tables handed to SetDict: one route; two routes under one code; a code
\* that needs both bytes; two keys that TrimSpace makes equal
Tables ==
    { {<<RoomJoin, 7>>},
      {<<RoomJoin, 7>>, <<Chat, 7>>},
      {<<Chat, 300>>},
      {<<<<32>> \o Chat, 5>>, <<Chat, 6>>} }

\* byte sequences handed to Decode directly
RawBytes == {0, 1, 4, 7, 9, 133}
RawInputs == UNION {[1..n -> RawBytes] : n \in 0..MaxRawLen}

\* bytes that lie between len(data) and cap(data) in the array behind the
\* slice handed to Decode
Slacks == {<<>>, <<0, 7>>}

\* invalidType, lines 351-353
invalidType(t) == t < Request \/ t > Push

\* msgRoute, lines 347-349
msgRoute(t) == t = Request \/ t = Notify \/ t = Push

EncodeFlagNoShift(t, compressed) ==
    (t % 256) + (IF compressed THEN msgRouteCompressMask ELSE 0)

\* Encode, lines 373-379: flag := byte(m.Type) << 1, and bit 0 is set when
\* the route is a key of routeDict
EncodeFlag(t, compressed) ==
    ((t * 2) % 256) + (IF compressed THEN msgRouteCompressMask ELSE 0)

\* Encode, lines 381-393: the id, 7 bits per byte, low group first
RECURSIVE EncodeID(_)
EncodeID(n) ==
    LET b == n % 128
        rest == n \div 128
    IN IF rest # 0 THEN <<b + 128>> \o EncodeID(rest) ELSE <<b>>

\* Encode, lines 395-403
EncodeRoute(route, rd) ==
    IF route \in DOMAIN rd
    THEN <<(rd[route] \div 256) % 256, rd[route] % 256>>
    ELSE <<Len(route) % 256>> \o route

\* Encode, lines 366-408
Encode(m, rd) ==
    IF invalidType(m.type)
    THEN [err |-> ErrWrongMessageType, bytes |-> <<>>, none |-> FALSE]
    ELSE [err |-> NilErr,
          bytes |-> <<EncodeFlag(m.type, m.route \in DOMAIN rd)>>
                    \o (IF m.type = Request \/ m.type = Response
                        THEN EncodeID(m.id) ELSE <<>>)
                    \o (IF msgRoute(m.type) THEN EncodeRoute(m.route, rd) ELSE <<>>)
                    \o m.data,
          none |-> FALSE]

\* Decode returns nil and an error
DecodeError(e, over, term) ==
    [status |-> "error", err |-> e, type |-> Request, id |-> 0, route |-> <<>>,
     compressed |-> FALSE, data |-> <<>>, overread |-> over, idTerminated |-> term]

\* Decode faults: an index or a slice bound is out of range
DecodePanic(over, term) ==
    [status |-> "panic", err |-> NilErr, type |-> Request, id |-> 0, route |-> <<>>,
     compressed |-> FALSE, data |-> <<>>, overread |-> over, idTerminated |-> term]

\* Decode, lines 429-436: the loop over the bytes of the id.  offset is
\* assigned only when a byte below 128 is found; when the bytes run out the
\* loop just ends.  (uint has 64 bits; the inputs are too short to overflow.)
RECURSIVE DecodeID(_, _, _, _)
DecodeID(d, i, offset, id) ==
    IF i >= Len(d)
    THEN [id |-> id, offset |-> offset, terminated |-> FALSE]
    ELSE LET b == d[i + 1]
             sum == id + (b % 128) * 2^(7 * (i - offset))
         IN IF b < 128
            THEN [id |-> sum, offset |-> i + 1, terminated |-> TRUE]
            ELSE DecodeID(d, i + 1, offset, sum)

\* Decode, lines 461-462: m.Data = data[offset:]
DecodeData(d, type, id, route, compressed, offset, over, term) ==
    IF offset > Len(d)
    THEN DecodePanic(over, term)
    ELSE [status |-> "ok", err |-> NilErr, type |-> type, id |-> id, route |-> route,
          compressed |-> compressed, data |-> SubSeq(d, offset + 1, Len(d)),
          overread |-> over, idTerminated |-> term]

\* Decode, lines 410-463.  d is the slice, slack the bytes of its array
\* beyond len(d): an index is checked against len(d), the upper bound of a
\* slice expression against cap(d).
Decode(d, slack, cd) ==
    IF Len(d) <= msgHeadLength
    THEN DecodeError(ErrInvalidMessage, FALSE, TRUE)
    ELSE
    LET n == Len(d)
        cap == n + Len(slack)
        mem == d \o slack
        flag == d[1]
        type == (flag \div 2) % (msgTypeMask + 1)
        scan == IF type = Request \/ type = Response
                THEN DecodeID(d, 1, 1, 0)
                ELSE [id |-> 0, offset |-> 1, terminated |-> TRUE]
        offset == scan.offset
        term == scan.terminated
    IN  IF invalidType(type) THEN DecodeError(ErrWrongMessageType, FALSE, TRUE)
        ELSE IF ~msgRoute(type)
        THEN DecodeData(d, type, scan.id, <<>>, FALSE, offset, FALSE, term)
        ELSE IF flag % 2 = msgRouteCompressMask
        THEN IF offset + 2 > cap THEN DecodePanic(TRUE, term)
             ELSE LET code == mem[offset + 1] * 256 + mem[offset + 2]
                      over == offset + 2 > n
                  IN IF code \notin DOMAIN cd
                     THEN DecodeError(ErrRouteInfoNotFound, over, term)
                     ELSE DecodeData(d, type, scan.id, cd[code], TRUE,
                                     offset + 2, over, term)
        ELSE IF offset >= n THEN DecodePanic(TRUE, term)
             ELSE LET rl == d[offset + 1]
                      hi == offset + 1 + rl
                  IN IF hi > cap THEN DecodePanic(TRUE, term)
                     ELSE DecodeData(d, type, scan.id, SubSeq(mem, offset + 2, hi),
                                     FALSE, hi, hi > n, term)

\* strings.TrimSpace on the bytes of a route
Space == {9, 10, 11, 12, 13, 32}
RECURSIVE TrimLeft(_)
TrimLeft(r) == IF r # <<>> /\ Head(r) \in Space THEN TrimLeft(Tail(r)) ELSE r
RECURSIVE TrimRight(_)
TrimRight(r) ==
    IF r # <<>> /\ r[Len(r)] \in Space THEN TrimRight(SubSeq(r, 1, Len(r) - 1)) ELSE r
TrimSpace(r) == TrimRight(TrimLeft(r))

\* SetDict, lines 469-482: the body of the loop for one entry of the table
SetEntry(d, route, code) ==
    LET r == TrimSpace(route)
    IN [rd |-> (r :> code) @@ d.rd, cd |-> (code :> r) @@ d.cd]

RECURSIVE SetDictFrom(_, _, _)
SetDictFrom(d, order, i) ==
    IF i > Len(order) THEN d
    ELSE SetDictFrom(SetEntry(d, order[i][1], order[i][2]), order, i + 1)

\* the orders in which range can visit the entries of a map
Orders(table) ==
    {o \in [1..Cardinality(table) -> table] : \A i, j \in DOMAIN o : i # j => o[i] # o[j]}

\* SetDict, lines 467-484, called before any message is encoded or decoded
SetDict(table, order) ==
    /\ mpc \in {"message", "bytes"}
    /\ encoded = NoEncoded
    /\ loads < MaxLoads
    /\ LET d == SetDictFrom([rd |-> routeDict, cd |-> codeDict], order, 1)
       IN routeDict' = d.rd /\ codeDict' = d.cd
    /\ loads' = loads + 1
    /\ UNCHANGED <<mpc, msg, encoded, data, decoded, rpcVars>>

\* a caller encodes msg; the bytes are what the peer will hand to Decode
CallEncode ==
    /\ mpc = "message"
    /\ encoded' = Encode(msg, routeDict)
    /\ data' = encoded'.bytes
    /\ mpc' = IF encoded'.err = NilErr THEN "bytes" ELSE "encodeError"
    /\ UNCHANGED <<msg, routeDict, codeDict, loads, decoded, rpcVars>>

\* only the first n bytes of the encoding have arrived
ReceivePrefix(n) ==
    /\ mpc = "bytes"
    /\ encoded # NoEncoded
    /\ data = encoded.bytes
    /\ n < Len(data)
    /\ data' = SubSeq(data, 1, n)
    /\ UNCHANGED <<mpc, msg, routeDict, codeDict, loads, encoded, decoded, rpcVars>>

\* a caller decodes data
CallDecode(slack) ==
    /\ mpc = "bytes"
    /\ decoded' = Decode(data, slack, codeDict)
    /\ mpc' = "decoded"
    /\ UNCHANGED <<msg, routeDict, codeDict, loads, encoded, data, rpcVars>>

\* a message to encode, or bytes that arrive from a peer
CodecInit ==
    /\ ClientInit
    /\ routeDict = EmptyDict
    /\ codeDict = EmptyDict
    /\ loads = 0
    /\ encoded = NoEncoded
    /\ decoded = NoDecoded
    /\ \/ mpc = "message" /\ msg \in Messages /\ data = <<>>
       \/ mpc = "bytes" /\ msg = NoMsg /\ data \in RawInputs

CodecNext ==
    \/ \E table \in Tables : \E order \in Orders(table) : SetDict(table, order)
    \/ CallEncode
    \/ \E n \in 0..(Len(data) - 1) : ReceivePrefix(n)
    \/ \E slack \in Slacks : CallDecode(slack)

CodecSpec == CodecInit /\ [][CodecNext]_vars

\* ---- properties ----


\* C1: in every interleaving of Go/Call, responses, write failures, Close and
\* the final drain, call.done() is invoked at most once on every Call.
C1_CompletedAtMostOnce == \A c \in Calls : doneCount[c] <= 1

\* a call completed by a response, another by the write-failure path, and
\* the drain has run afterwards
C1_Witness ==
    /\ ipc = "done"
    /\ \E c, d \in Calls : /\ doneBy[c] = "response" /\ doneCount[c] = 1
                           /\ doneBy[d] = "writefail" /\ doneCount[d] = 1

\* C2: when Read returns io.EOF while calls are pending and closing is false,
\* every such call is completed with io.ErrUnexpectedEOF.
C2_UnexpectedEOF ==
    (Terminated /\ rerr = EOF /\ ~closingLocal)
        => \A c \in drained : callError[c] = ErrUnexpectedEOF

\* C3: when Close was called before the receive loop observed end-of-stream,
\* the loop's termination sets shutdown and completes every call still in the
\* pending table with ErrShutdown.
C3_ShutdownAfterClose ==
    (Terminated /\ rerr = EOF /\ closingAtRead)
        => /\ shutdown
           /\ \A c \in drained : callError[c] = ErrShutdown

\* C4: a Go/Call invocation that finds closing or shutdown set completes the
\* call at once with ErrShutdown, writes nothing to the stream, inserts
\* nothing into the pending table and leaves the sequence counter unchanged.
C4_RejectedAfterShutdown ==
    [][\A c \in Calls :
          (cpc[c] = "idle" /\ cpc'[c] # "idle" /\ (closing \/ shutdown))
              => /\ cpc'[c] = "returned"
                 /\ callError'[c] = ErrShutdown
                 /\ doneCount'[c] = 1
                 /\ written' = written
                 /\ pending' = pending
                 /\ everPending' = everPending
                 /\ seq' = seq]_vars

\* a reply-expecting call rejected after Close, never written nor registered
C4_Witness ==
    \E c \in Calls : /\ closing /\ hasReply[c] /\ cpc[c] = "returned"
                     /\ doneBy[c] = "shutdown" /\ callError[c] = ErrShutdown
                     /\ c \notin written /\ c \notin everPending

\* C5: no completed call remains in the pending table: whenever a call has
\* been completed, by whichever path, its entry has been removed.
C5_NoCompletedInTable == \A s \in Keys(pending) : ~Completed(pending[s])

\* C6: the sequence numbers given to reply-expecting calls are pairwise
\* distinct and are 0, 1, 2, ... in order of registration.
C6_DistinctSeqs ==
    /\ \A c, d \in everPending : c # d => callSeq[c] # callSeq[d]
    /\ {callSeq[c] : c \in everPending} = 0..(seq - 1)

\* two reply-expecting calls registered and pending together
C6_Witness == Cardinality(Keys(pending)) = 2 /\ Cardinality(everPending) = 2

\* C7: a non-error response's Data is written into the Reply slot of the
\* call registered under the response's Seq, and no other Reply slot changes.
C7_ReplyToOwnCall ==
    [][/\ \A c \in Calls :
            callReply'[c] # callReply[c]
                => /\ ipc = "complete" /\ inResp.error = ""
                   /\ c \in everPending /\ callSeq[c] = inResp.seq
                   /\ callReply'[c] = inResp.data
       /\ (ipc = "complete" /\ ipc' = "decode" /\ inCall # None)
            => /\ inCall \in everPending /\ callSeq[inCall] = inResp.seq
               /\ (inResp.error = "" => callReply'[inCall] = inResp.data)]_vars

\* responses in reverse order: the call with sequence number 1 has its reply
\* while the call with sequence number 0 is still pending, both written
C7_Witness ==
    \E c, d \in Calls :
        /\ c \in written /\ d \in written
        /\ callSeq[c] = 0 /\ pending[0] = c /\ callReply[c] = NoData
        /\ callSeq[d] = 1 /\ d \in everPending /\ doneBy[d] = "response"
        /\ callReply[d] \in Data

\* C8: a call without a reply slot is never in the pending table and does
\* not advance the sequence counter.
C8_FireAndForget ==
    /\ \A s \in Keys(pending) : hasReply[pending[s]]
    /\ \A c \in everPending : hasReply[c]
    /\ seq = Cardinality(everPending)

\* a fire-and-forget request written to the stream: the table is empty and
\* the sequence counter still 0
C8_Witness ==
    \E c \in Calls : /\ ~hasReply[c] /\ c \in written /\ cpc[c] = "returned"
                     /\ seq = 0 /\ Keys(pending) = {}

\* C9: a reply-expecting call is inserted into the pending table before its
\* request is written, so a response for a written request never finds the
\* call unregistered.
C9_RegisteredBeforeWrite ==
    [][/\ \A c \in Calls : (hasReply'[c] /\ c \in written') => c \in everPending'
       /\ (ipc = "decode" /\ ipc' = "complete")
            => \A c \in Calls :
                  (hasReply[c] /\ c \in written /\ callSeq[c] = inResp'.seq
                      /\ ~Completed(c))
                      => inCall' = c]_vars

\* the response to a written request is matched with its call
C9_Witness ==
    /\ ipc = "complete"
    /\ inCall # None /\ inCall \in written /\ callSeq[inCall] = inResp.seq

\* C10: over any number of Close calls exactly the first sets closing and
\* closes the stream; every other one returns ErrShutdown, and codec.close()
\* is invoked at most once.
C10_CloseOnce ==
    /\ streamCloses <= 1
    /\ Cardinality({k \in Closers : kpc[k] = "closeStream" \/ closeRet[k] = "closed"}) <= 1
    /\ \A k \in Closers : kpc[k] # "idle" => closing
    /\ \A k \in Closers :
          kpc[k] = "returned" => closeRet[k] \in {"closed", ErrShutdown}
    /\ streamCloses = Cardinality({k \in Closers : closeRet[k] = "closed"})

\* two Close calls have returned, the second with ErrShutdown
C10_Witness ==
    /\ streamCloses = 1
    /\ \E j, k \in Closers : /\ closeRet[j] = "closed" /\ closeRet[k] = ErrShutdown
                             /\ kpc[j] = "returned" /\ kpc[k] = "returned"

\* C11: a callback registered with OnShutdown is invoked exactly once, by the
\* receive loop, after shutdown is set and the drain is over, whatever the
\* interleaving of OnShutdown with the loop's termination.
C11_CallbackExactlyOnce ==
    /\ callbackRuns <= 1
    /\ callbackRuns = 1 => (ipc = "done" /\ shutdown)
    /\ (ipc = "done" /\ shutdownCallback) => callbackRuns = 1

\* C12: forwarding a push / out-of-band response to ResponseChan never blocks
\* the receive loop, whatever the occupancy of the queue.
C12_PushNeverBlocks ==
    (ipc = "decode" /\ buf # <<>> /\ Head(buf).kind = "push")
        => ENABLED InputDecodePush

\* C13: when the write of a request fails, the call being sent is completed
\* with the write error and is not in the pending table afterwards, and no
\* other call is removed from the table or completed.
C13_WriteFailure ==
    [][\A c \in Calls :
          (cpc[c] = "failDone" /\ cpc'[c] = "returned")
              => /\ callError'[c] = ErrWrite
                 /\ doneCount'[c] = 1
                 /\ c \notin InTable(pending')
                 /\ \A d \in Calls \ {c} :
                       /\ doneCount'[d] = doneCount[d]
                       /\ callError'[d] = callError[d]
                       /\ (d \in InTable(pending) => d \in InTable(pending'))]_vars

\* C16: a read error or a malformed record met by the receive loop ends the
\* loop, and the drain completes every pending call with that non-nil error;
\* a malformed record does not leave the loop running.
C16_ErrorsEndTheLoop ==
    [][/\ (ipc = "decode" /\ buf # <<>> /\ Head(buf).kind = "bad" /\ buf' # buf)
            => ipc' = "drain"
       /\ (ipc = "drain" /\ ipc' = "callback")
            => \A c \in drained' : callError'[c] # NilErr]_vars

\* C14: after Close every call that was pending is eventually completed, by
\* a response or by the drain with an error, when the closed stream makes
\* Read fail and scheduling is fair.
C14_CloseCompletesPending ==
    \A c \in Calls :
        (closing /\ c \in InTable(pending))
            ~> (Completed(c) /\ (doneBy[c] = "drain" => callError[c] # NilErr))

\* C15: no Call invocation blocks forever: when the stream has ended, the
\* receive loop has finished and every send has returned, every call has been
\* completed and its caller released.
C15_EveryCallReturns ==
    (ipc = "done" /\ \A c \in Calls : cpc[c] = "returned")
        => \A c \in Calls : CallReturned(c)

\* C17: for every well-formed message (a defined type, a route of at most 255
\* bytes, any id, any payload, the empty and the one-byte payload included)
\* and any loaded dictionary, Decode of the bytes Encode returned succeeds and
\* yields the same type, the same route for routed types, the same id for
\* Request and Response, and the same payload.
C17_RoundTrip ==
    (mpc = "decoded" /\ ~msg.none /\ ~invalidType(msg.type) /\ data = encoded.bytes) =>
        /\ decoded.status = "ok"
        /\ decoded.type = msg.type
        /\ msgRoute(msg.type) => decoded.route = msg.route
        /\ (msg.type = Request \/ msg.type = Response) => decoded.id = msg.id
        /\ decoded.data = msg.data

\* C18: for every message and every proper prefix of its encoding, Decode
\* does not return a message (the frame is incomplete), in particular not
\* one whose route or payload is cut short.
C18_PartialBuffer ==
    (mpc = "decoded" /\ ~msg.none /\ data # encoded.bytes) => decoded.status # "ok"

\* the bytes of the encoding after the flag and, for a Request, the id
AfterID == SubSeq(encoded.bytes, 2 + (IF msg.type = Request THEN Len(EncodeID(msg.id)) ELSE 0),
                  Len(encoded.bytes))

\* C19: for a routed message (Request, Notify, Push) Encode sets bit 0 of the
\* header and emits the route as its 2-byte big-endian code exactly when the
\* route is a key of routeDict, and otherwise clears bit 0 and emits one
\* length byte followed by the bytes of the route; bits 1-3 of the header
\* hold the type and bits 4-7 are zero.
C19_EncodeLayout ==
    (mpc \in {"bytes", "decoded"} /\ ~msg.none /\ msgRoute(msg.type)) =>
        LET flag == encoded.bytes[1]
        IN /\ encoded.err = NilErr
           /\ (flag \div 2) % 8 = msg.type
           /\ flag \div 16 = 0
           /\ (flag % 2 = 1) <=> (msg.route \in DOMAIN routeDict)
           /\ msg.route \in DOMAIN routeDict =>
                  /\ Len(AfterID) = 2 + Len(msg.data)
                  /\ AfterID[1] * 256 + AfterID[2] = routeDict[msg.route]
                  /\ SubSeq(AfterID, 3, Len(AfterID)) = msg.data
           /\ msg.route \notin DOMAIN routeDict =>
                  AfterID = <<Len(msg.route)>> \o msg.route \o msg.data

\* Notify with route "room.join" under code 7 and payload "abc" has been
\* encoded to 0x03 0x00 0x07 'a' 'b' 'c'
C19_Witness ==
    /\ mpc = "bytes"
    /\ msg.type = Notify
    /\ msg.route = RoomJoin
    /\ msg.data = <<97, 98, 99>>
    /\ RoomJoin \in DOMAIN routeDict
    /\ routeDict[RoomJoin] = 7
    /\ encoded.bytes = <<3, 0, 7, 97, 98, 99>>

\* C20: for every input byte sequence Decode returns a message or an error:
\* it does not fault, it reads no byte beyond the end of the input, and an
\* id whose bytes end without a terminating byte is reported as an error,
\* not decoded as a value.
C20_DecodeInBounds ==
    mpc = "decoded" =>
        /\ decoded.status # "panic"
        /\ ~decoded.overread
        /\ ~decoded.idTerminated => decoded.status = "error"

\* the client state a discarded record must leave alone
StrayFrame ==
    /\ pending' = pending
    /\ seq' = seq
    /\ closing' = closing
    /\ shutdown' = shutdown
    /\ callError' = callError
    /\ callReply' = callReply
    /\ doneCount' = doneCount

\* C21: when the receive loop decodes an ordinary response whose Seq is not a
\* key of the pending table, the record is discarded: the lookup finds no
\* call and consumes the record, the pending table, the sequence counter, the
\* closing/shutdown flags and every call's Error, Reply and Done are
\* unchanged, and the loop goes on to decode the next record.
C21_StrayDiscarded ==
    [][/\ (/\ ipc = "decode" /\ ipc' = "complete"
           /\ Head(buf).seq \notin Keys(pending))
          => (StrayFrame /\ inCall' = None /\ buf' = Tail(buf))
       /\ (ipc = "complete" /\ inCall = None /\ ipc' # ipc)
          => (StrayFrame /\ ipc' = "decode" /\ buf' = buf)]_vars

\* the lookup for a stray response has found no call while another call is
\* registered and its request written
C21_Witness ==
    /\ ipc = "complete"
    /\ inCall = None
    /\ inResp.kind = "response"
    /\ Keys(pending) # {}
    /\ InTable(pending) \cap written # {}

\* C22: no task is at the Lock() of reqMutex while it holds mutex, so a task
\* that holds both took reqMutex first; and no two tasks (nor one task with
\* itself) are each blocked on a lock the other holds.
C22_LockOrder ==
    /\ \A t \in Tasks : mutex = t => WantsLock(t) # "reqMutex"
    /\ \A t, u \in Tasks :
           ~ /\ WantsLock(t) # "none" /\ Holder(WantsLock(t)) = u
             /\ WantsLock(u) # "none" /\ Holder(WantsLock(u)) = t

\* the drain holds both locks while a send is blocked on reqMutex and a
\* Close on mutex
C22_Witness ==
    /\ ipc = "drainRegion"
    /\ reqMutex = InputTask
    /\ mutex = InputTask
    /\ \E c \in Calls : WantsLock(c) = "reqMutex"
    /\ \E k \in Closers : WantsLock(CloseTask(k)) = "mutex"

\* C23: after any sequence of SetDict loads routeDict and codeDict are
\* mutual inverses: codeDict[routeDict[r]] = r for every route r of
\* routeDict and routeDict[codeDict[c]] = c for every code c of codeDict.
C23_DictsInverse ==
    /\ \A r \in DOMAIN routeDict :
           routeDict[r] \in DOMAIN codeDict /\ codeDict[routeDict[r]] = r
    /\ \A c \in DOMAIN codeDict :
           codeDict[c] \in DOMAIN routeDict /\ routeDict[codeDict[c]] = c
====
